---- MODULE Spec2Model ----
(***************************************************************************)
(* docker-repo-cp: copy every tag of a source repository to a destination  *)
(* repository through the local docker engine, then remove the local tags  *)
(* the run created.                                                        *)
(*                                                                         *)
(* Two copies of the program exist: the package                            *)
(* src/docker_repo_cp/__init__.py ("package") and the standalone module    *)
(* src/docker_repo_cp.py ("standalone").  Both are modelled; `copy` says   *)
(* which one is running.                                                   *)
(*                                                                         *)
(* A Python str is a sequence of one-character strings.  The docker engine *)
(* (docker-py client + daemon + registry) is not part of the repository;   *)
(* it is modelled as two stores, tag -> image id, behind the five calls    *)
(* the program makes: list, pull, tag, push, remove.                       *)
(***************************************************************************)
EXTENDS Integers, Sequences, FiniteSets, TLC

VARIABLES
    pc,               \* position of main / docker_context
    copy,             \* "package" or "standalone": which copy is running
    apply,            \* main's apply flag
    fault,            \* the engine call that raises a transport error
    local,            \* local image store: raw tag -> image id or NoImage
    registry,         \* remote registry:   raw tag -> image id or NoImage
    local0,           \* local store when main was called
    registry0,        \* registry when main was called
    init_image_tags,  \* docker_context: snapshot of the local tags at entry
    pulled_images,    \* main: the list pull_all returned
    migrated,         \* the Images migrate_tags returned so far
    logs,             \* the response of the engine's push
    pushed,           \* whether the engine's push has produced `logs`
    cleanup,          \* docker_context exit: raw tags of the re-listed images
    j,                \* docker_context exit: tags of `cleanup` already visited
    calls,            \* engine calls issued so far in this run, in order
    block_exc,        \* the exception the with-block ended with
    exc,              \* the exception currently propagating
    result_package,   \* calls and outcome of the package's run
    arg,              \* input of a function called on its own
    ret               \* what that function returned or raised

vars == <<pc, copy, apply, fault, local, registry, local0, registry0,
          init_image_tags, pulled_images, migrated, logs, pushed, cleanup, j,
          calls, block_exc, exc, result_package, arg, ret>>

(***************************************************************************)
(* Bounds of the model.                                                    *)
(***************************************************************************)
MaxLen == 4        \* longest str given to ImageTag.from_string
MaxLines == 3      \* most lines of a push response given to process_docker_push_logs
MaxInitTags == 2   \* most tags in the local store when main is called
MaxTags == 2       \* most tags of an Image given to migrate_tags on its own

(***************************************************************************)
(* str helpers.                                                            *)
(***************************************************************************)
RECURSIVE SplitAcc(_, _, _)
SplitAcc(s, parts, cur) ==
    IF s = <<>> THEN Append(parts, cur)
    ELSE IF Head(s) = ":" THEN SplitAcc(Tail(s), Append(parts, cur), <<>>)
    ELSE SplitAcc(Tail(s), parts, Append(cur, Head(s)))

\* s.split(":")
Split(s) == SplitAcc(s, <<>>, <<>>)

RECURSIVE Join(_)
\* ":".join(parts)
Join(parts) ==
    IF Len(parts) = 0 THEN <<>>
    ELSE IF Len(parts) = 1 THEN parts[1]
    ELSE parts[1] \o <<":">> \o Join(Tail(parts))

\* s.startswith(prefix)
startswith(s, prefix) ==
    /\ Len(prefix) <= Len(s)
    /\ SubSeq(s, 1, Len(prefix)) = prefix

(***************************************************************************)
(* ImageTag.                                                               *)
(***************************************************************************)
ImageTag(repository, tag) == [repository |-> repository, tag |-> tag]

NoTag == ImageTag(<<>>, <<>>)

\* ImageTag.uri
uri(t) == t.repository \o <<":">> \o t.tag

\* ImageTag.from_string of the standalone module: exactly two segments.
from_string_standalone(s) ==
    LET split_s == Split(s) IN
    IF Len(split_s) # 2
    THEN [err |-> "ValueError", val |-> NoTag]
    ELSE [err |-> "none", val |-> ImageTag(split_s[1], split_s[2])]

\* What from_string becomes if it splits at the first colon.
from_string_first_colon(s) ==
    LET split_s == Split(s) IN
    IF Len(split_s) < 2
    THEN [err |-> "ValueError", val |-> NoTag]
    ELSE [err |-> "none",
          val |-> ImageTag(split_s[1], Join(Tail(split_s)))]

\* ImageTag.from_string of the package: the last segment is the tag.
from_string(s) ==
    LET split_s == Split(s) IN
    IF Len(split_s) < 2
    THEN [err |-> "ValueError", val |-> NoTag]
    ELSE [err |-> "none",
          val |-> ImageTag(Join(SubSeq(split_s, 1, Len(split_s) - 1)),
                           split_s[Len(split_s)])]

from_string_of(c, s) ==
    IF c = "package" THEN from_string(s) ELSE from_string_standalone(s)

(***************************************************************************)
(* Exceptions.  `type` is the Python exception ("none": nothing raised),   *)
(* `op` the engine call that raised it, `line` the record a push error     *)
(* carries.                                                                *)
(***************************************************************************)
NoLine == [kind |-> "none", type |-> "none", elems |-> <<>>]

Exc(type, op, line) == [type |-> type, op |-> op, line |-> line]

NoExc == Exc("none", "none", NoLine)

\* docker.errors.APIError raised by the engine call `op`
APIError(op) == Exc("APIError", op, NoLine)

\* ValueError(f"Invalid tag name: {s}")
InvalidTag == Exc("InvalidTag", "none", NoLine)

(***************************************************************************)
(* The push response.  logs.split("\n") is a non-empty sequence of lines;  *)
(* a line is "" (kind "empty"), text json.loads rejects (kind "text"), or  *)
(* a JSON document (kind "json") of some JSON type: an object with the     *)
(* keys `elems`, a string made of the words `elems`, an array of the       *)
(* strings `elems`, or a number.                                           *)
(***************************************************************************)
EmptyLine == [kind |-> "empty", type |-> "none", elems |-> <<>>]

TextLine == [kind |-> "text", type |-> "none", elems |-> <<>>]

Json(type, elems) == [kind |-> "json", type |-> type, elems |-> elems]

StatusRecord == Json("dict", <<"status">>)

ErrorRecord == Json("dict", <<"error">>)

ErrorDetailRecord == Json("dict", <<"errorDetail", "error">>)

ErrorString == Json("str", <<"error">>)

NumberLine == Json("int", <<>>)

Lines == {EmptyLine, TextLine, StatusRecord, ErrorRecord, ErrorDetailRecord,
          ErrorString, NumberLine}

\* json.loads(line)
json_loads(line) ==
    IF line.kind = "json"
    THEN [err |-> "none", val |-> line]
    ELSE [err |-> "JSONDecodeError", val |-> NoLine]

\* "error" in payload: key of a dict, substring of a str, element of a list;
\* any other payload is not iterable.
error_in(payload) ==
    IF payload.type \in {"dict", "str", "list"}
    THEN [err |-> "none",
          val |-> \E k \in 1..Len(payload.elems) : payload.elems[k] = "error"]
    ELSE [err |-> "TypeError", val |-> FALSE]

RECURSIVE process_docker_push_logs_standalone(_)
\* process_docker_push_logs of the standalone module: every line is parsed.
process_docker_push_logs_standalone(lines) ==
    IF lines = <<>> THEN NoExc
    ELSE LET line == Head(lines)
             payload == json_loads(line)
             found == error_in(payload.val)
         IN IF payload.err # "none" THEN Exc(payload.err, "none", NoLine)
            ELSE IF found.err # "none" THEN Exc(found.err, "none", NoLine)
            ELSE IF found.val THEN Exc("PushError", "none", payload.val)
            ELSE process_docker_push_logs_standalone(Tail(lines))

RECURSIVE process_docker_push_logs(_)
\* process_docker_push_logs of the package: the exception it raises, NoExc
\* when it returns.  Empty lines and lines json.loads rejects are skipped.
process_docker_push_logs(lines) ==
    IF lines = <<>> THEN NoExc
    ELSE LET line == Head(lines)
             payload == json_loads(line)
             found == error_in(payload.val)
         IN IF line.kind = "empty"
            THEN process_docker_push_logs(Tail(lines))
            ELSE IF payload.err # "none"
            THEN process_docker_push_logs(Tail(lines))
            ELSE IF found.err # "none" THEN Exc(found.err, "none", NoLine)
            ELSE IF found.val THEN Exc("PushError", "none", payload.val)
            ELSE process_docker_push_logs(Tail(lines))

process_docker_push_logs_of(c, lines) ==
    IF c = "package" THEN process_docker_push_logs(lines)
    ELSE process_docker_push_logs_standalone(lines)

(***************************************************************************)
(* The engine.  Image ids, tags, and the two stores.                       *)
(*                                                                         *)
(* What is taken of the engine: a tag is bound to at most one image; pull  *)
(* binds every tag of the repository held by the registry to the           *)
(* registry's image, moving a local tag of the same name, and returns the  *)
(* local images that carry a tag of the repository; tag creates or moves a *)
(* tag; push copies the local tags of the repository to the registry, and  *)
(* copies none when it reports an error record; remove unbinds one tag.    *)
(* Images are listed in a fixed order, each with its tags in a fixed       *)
(* order; an image left without a tag reports no tag and is not listed.    *)
(* A call that raises changes no store.  list does not raise.              *)
(***************************************************************************)
ImageIds == {"X", "Y"}

NoImage == "none"

\* main's arguments: the source repository "s" and the destination "h:d"
\* (a registry host with a port, as in the standalone module's own call).
SrcRepository == <<"s">>

DstRepository == <<"h", ":", "d">>

\* A repository that is not the source but whose name starts with it.
SiblingRepository == <<"s", "x">>

Raw(repository, tag) == repository \o <<":">> \o tag

\* Every tag the stores may hold, in the order an image reports its tags.
TagOrder ==
    << Raw(SrcRepository, <<"1">>), Raw(SrcRepository, <<"2">>),
       Raw(SiblingRepository, <<"1">>),
       Raw(DstRepository, <<"1">>), Raw(DstRepository, <<"2">>) >>

Tags == {TagOrder[k] : k \in 1..Len(TagOrder)}

\* The order in which the engine lists images.
ImageOrder == <<"X", "Y">>

Stores == [Tags -> ImageIds \cup {NoImage}]

EmptyStore == [t \in Tags |-> NoImage]

\* The repository the engine files a raw tag under: all before its last colon.
RepositoryOf(raw) ==
    LET colons == {k \in 1..Len(raw) : raw[k] = ":"}
        last == CHOOSE k \in colons : \A m \in colons : m <= k
    IN IF colons = {} THEN raw ELSE SubSeq(raw, 1, last - 1)

\* docker image object: its id and the raw tags bound to it when it was listed
DockerImage(store, id) ==
    [id |-> id, tags |-> SelectSeq(TagOrder, LAMBDA t : store[t] = id)]

\* client.images.list(): the images that carry a tag
EngineList(store) ==
    LET all == [k \in 1..Len(ImageOrder) |-> DockerImage(store, ImageOrder[k])]
    IN SelectSeq(all, LAMBDA im : im.tags # <<>>)

\* client.images.list(name=repository)
EngineListName(store, repository) ==
    SelectSeq(EngineList(store),
              LAMBDA im : \E k \in 1..Len(im.tags) :
                              RepositoryOf(im.tags[k]) = repository)

\* local store after client.images.pull(repository, all_tags=True)
EnginePulled(store, reg, repository) ==
    [t \in Tags |-> IF RepositoryOf(t) = repository /\ reg[t] # NoImage
                    THEN reg[t] ELSE store[t]]

\* local store after docker_object.tag(repository, tag=tag): the tag is
\* created, or moved when it exists
EngineTagged(store, id, raw) == [store EXCEPT ![raw] = id]

\* a dict record with an "error" key in the push response
IsErrorRecord(line) ==
    /\ line.kind = "json"
    /\ line.type = "dict"
    /\ \E k \in 1..Len(line.elems) : line.elems[k] = "error"

HasErrorRecord(lines) == \E k \in 1..Len(lines) : IsErrorRecord(lines[k])

\* registry after client.images.push(repository) answered `response`
EnginePushed(store, reg, repository, response) ==
    IF HasErrorRecord(response) THEN reg
    ELSE [t \in Tags |-> IF RepositoryOf(t) = repository /\ store[t] # NoImage
                         THEN store[t] ELSE reg[t]]

\* local store after client.images.remove(raw)
EngineRemoved(store, raw) == [store EXCEPT ![raw] = NoImage]

\* The responses the engine's push may give.
PushResponses ==
    { <<StatusRecord>>,
      <<StatusRecord, EmptyLine>>,
      <<StatusRecord, TextLine, ErrorRecord>>,
      <<StatusRecord, ErrorDetailRecord, EmptyLine>>,
      <<NumberLine, ErrorRecord>>,
      <<ErrorString>> }

(***************************************************************************)
(* Engine calls and their failures.                                        *)
(***************************************************************************)
Call(op, a) == [op |-> op, arg |-> a]

Count(cs, op) == Cardinality({k \in 1..Len(cs) : cs[k].op = op})

NoFault == [op |-> "none", nth |-> 0]

Faults ==
    {NoFault} \cup
    { [op |-> "pull", nth |-> 1], [op |-> "push", nth |-> 1],
      [op |-> "tag", nth |-> 1], [op |-> "tag", nth |-> 2],
      [op |-> "remove", nth |-> 1], [op |-> "remove", nth |-> 2] }

\* whether the next call of `op`, after the calls cs, raises
Fails(f, cs, op) == f.op = op /\ Count(cs, op) + 1 = f.nth

(***************************************************************************)
(* DockerImageProxy.                                                       *)
(***************************************************************************)
Image(id, tags, docker_object) ==
    [id |-> id, tags |-> tags, docker_object |-> docker_object]

\* DockerImageProxy._format_docker_image: [exc, val]
format_docker_image(c, docker_image) ==
    LET parsed == [k \in 1..Len(docker_image.tags) |->
                       from_string_of(c, docker_image.tags[k])]
    IN IF \E k \in 1..Len(parsed) : parsed[k].err # "none"
       THEN [exc |-> InvalidTag, val |-> Image(docker_image.id, <<>>, docker_image.id)]
       ELSE [exc |-> NoExc,
             val |-> Image(docker_image.id,
                           [k \in 1..Len(parsed) |-> parsed[k].val],
                           docker_image.id)]

\* [self._format_docker_image(image) for image in image_list]: [exc, val]
format_all(c, image_list) ==
    LET formatted == [k \in 1..Len(image_list) |->
                          format_docker_image(c, image_list[k])]
    IN IF \E k \in 1..Len(formatted) : formatted[k].exc # NoExc
       THEN [exc |-> InvalidTag, val |-> <<>>]
       ELSE [exc |-> NoExc, val |-> [k \in 1..Len(formatted) |-> formatted[k].val]]

\* DockerImageProxy.pull_all: [exc, val, local, calls]
pull_all(c, repository_name, store, reg, cs, f) ==
    LET cs1 == Append(cs, Call("pull", repository_name))
        store1 == EnginePulled(store, reg, repository_name)
        images == format_all(c, EngineListName(store1, repository_name))
    IN IF Fails(f, cs, "pull")
       THEN [exc |-> APIError("pull"), val |-> <<>>, local |-> store, calls |-> cs1]
       ELSE [exc |-> images.exc, val |-> images.val, local |-> store1, calls |-> cs1]

\* migrate_tags that takes only the tags of the source repository itself.
migrate_selects_equal(prev_tag, src_repository) ==
    prev_tag.repository = src_repository

\* migrate_tags, line 78: the tags that are migrated
migrate_selects(prev_tag, src_repository) ==
    startswith(prev_tag.repository, src_repository)

\* An apply flag that is ignored.
applies_always(ap) == TRUE

\* `if self.apply:` of migrate_tags and push_all
applies(ap) == ap

RECURSIVE migrate_loop(_, _, _, _, _, _, _)
\* the for loop of migrate_tags over `tags`, the rest of image.tags;
\* st = [new_image_tags, local, calls, exc]
migrate_loop(tags, st, image, src_repository, new_repository, ap, f) ==
    IF tags = <<>> \/ st.exc # NoExc THEN st
    ELSE LET prev_tag == Head(tags)
             new_tag == ImageTag(new_repository, prev_tag.tag)
             tagged == [st EXCEPT
                 !.calls = Append(@, Call("tag", uri(new_tag))),
                 !.local = IF Fails(f, st.calls, "tag") THEN @
                           ELSE EngineTagged(@, image.docker_object, uri(new_tag)),
                 !.exc = IF Fails(f, st.calls, "tag") THEN APIError("tag") ELSE @]
             st1 == IF applies(ap) THEN tagged ELSE st
             st2 == IF st1.exc # NoExc THEN st1
                    ELSE [st1 EXCEPT !.new_image_tags = Append(@, new_tag)]
         IN IF ~migrate_selects(prev_tag, src_repository)
            THEN migrate_loop(Tail(tags), st, image, src_repository,
                              new_repository, ap, f)
            ELSE migrate_loop(Tail(tags), st2, image, src_repository,
                              new_repository, ap, f)

\* DockerImageProxy.migrate_tags: [exc, val, image_tags, local, calls];
\* image_tags is image.tags as the call leaves it
migrate_tags(image, src_repository, new_repository, ap, store, cs, f) ==
    LET st == migrate_loop(image.tags,
                           [new_image_tags |-> <<>>, local |-> store,
                            calls |-> cs, exc |-> NoExc],
                           image, src_repository, new_repository, ap, f)
    IN [exc |-> st.exc,
        val |-> Image(image.id, image.tags \o st.new_image_tags, image.docker_object),
        image_tags |-> image.tags,
        local |-> st.local,
        calls |-> st.calls]

\* DockerImageProxy.push_all, given the response the engine's push gives:
\* [exc, registry, calls, pushed]
push_all(c, repository_name, ap, store, reg, cs, f, response) ==
    LET cs1 == Append(cs, Call("push", repository_name)) IN
    IF ~applies(ap)
    THEN [exc |-> NoExc, registry |-> reg, calls |-> cs, pushed |-> FALSE]
    ELSE IF Fails(f, cs, "push")
    THEN [exc |-> APIError("push"), registry |-> reg, calls |-> cs1, pushed |-> FALSE]
    ELSE [exc |-> process_docker_push_logs_of(c, response),
          registry |-> EnginePushed(store, reg, repository_name, response),
          calls |-> cs1, pushed |-> TRUE]

(***************************************************************************)
(* docker_context.                                                         *)
(***************************************************************************)
\* {tag for image in list_local_images(client) for tag in image.tags}, in
\* the order the two loops visit the tags
listed_tags(store) ==
    LET images == EngineList(store)
        F[k \in 0..Len(images)] ==
            IF k = 0 THEN <<>> ELSE F[k - 1] \o images[k].tags
    IN F[Len(images)]

SeqToSet(q) == {q[k] : k \in 1..Len(q)}

\* docker_context without try/finally, as in the standalone module: an
\* exception of the block skips the exit step.
after_block_standalone(c, e) == IF e = NoExc THEN "cleanup" ELSE "done"

\* A docker_context whose exit step is not in a finally.
after_block_no_finally(c, e) == IF e = NoExc THEN "cleanup" ELSE "done"

\* where control goes when the with-block ends with exception e (NoExc: it
\* returned): the package runs the exit step in a finally
after_block(c, e) ==
    IF c = "package" THEN "cleanup" ELSE after_block_standalone(c, e)

\* An exit step that goes on after a failed remove.
after_remove_continue(failed) == "remove"

\* where the exit step goes after a remove call
after_remove(failed) == IF failed THEN "done" ELSE "remove"

\* `if image_tag in init_image_tags: continue`
keeps(image_tag, init) == image_tag \in init

(***************************************************************************)
(* main(src_repository, dst_repository, apply), run by the package and     *)
(* then, from the same stores and with the same engine answers, by the     *)
(* standalone module.                                                      *)
(***************************************************************************)
InitialStores ==
    {st \in Stores : Cardinality({t \in Tags : st[t] # NoImage}) <= MaxInitTags}

\* The source repository holds tag 1, and possibly tag 2, on the registry.
InitialRegistries ==
    {[EmptyStore EXCEPT ![TagOrder[1]] = id1, ![TagOrder[2]] = id2] :
        id1 \in ImageIds, id2 \in ImageIds \cup {NoImage}}

NoResult ==
    [calls |-> <<>>, exc |-> NoExc, pushed |-> FALSE,
     local |-> EmptyStore, registry |-> EmptyStore]

Init ==
    /\ pc = "enter"
    /\ copy = "package"
    /\ apply \in BOOLEAN
    /\ fault \in Faults
    /\ local \in InitialStores
    /\ registry \in InitialRegistries
    /\ local0 = local
    /\ registry0 = registry
    /\ init_image_tags = {}
    /\ pulled_images = <<>>
    /\ migrated = <<>>
    /\ logs = <<>>
    /\ pushed = FALSE
    /\ cleanup = <<>>
    /\ j = 0
    /\ calls = <<>>
    /\ block_exc = NoExc
    /\ exc = NoExc
    /\ result_package = NoResult
    /\ arg = <<>>
    /\ ret = <<>>

\* the with-block of main ends with exception e (NoExc: it returned)
EndBlock(e) ==
    /\ block_exc' = e
    /\ pc' = after_block(copy, e)
    /\ exc' = IF after_block(copy, e) = "done" THEN e ELSE exc

\* docker_context up to its yield: snapshot the local tags
Enter ==
    /\ pc = "enter"
    /\ calls' = Append(calls, Call("list", <<>>))
    /\ init_image_tags' = SeqToSet(listed_tags(local))
    /\ pc' = "pull"
    /\ UNCHANGED <<copy, apply, fault, local, registry, local0, registry0,
                   pulled_images, migrated, logs, pushed, cleanup, j,
                   block_exc, exc, result_package, arg, ret>>

\* pulled_images = image_context.pull_all(src_repository)
PullAll ==
    /\ pc = "pull"
    /\ LET r == pull_all(copy, SrcRepository, local, registry, calls, fault) IN
        /\ local' = r.local
        /\ calls' = r.calls
        /\ pulled_images' = r.val
        /\ IF r.exc = NoExc
           THEN /\ pc' = IF r.val = <<>> THEN "push" ELSE "migrate"
                /\ UNCHANGED <<block_exc, exc>>
           ELSE EndBlock(r.exc)
    /\ UNCHANGED <<copy, apply, fault, registry, local0, registry0,
                   init_image_tags, migrated, logs, pushed, cleanup, j,
                   result_package, arg, ret>>

\* one turn of `for image in pulled_images: image_context.migrate_tags(...)`
MigrateTags ==
    /\ pc = "migrate"
    /\ LET image == pulled_images[Len(migrated) + 1]
           r == migrate_tags(image, SrcRepository, DstRepository, apply,
                             local, calls, fault)
       IN
        /\ local' = r.local
        /\ calls' = r.calls
        /\ IF r.exc = NoExc
           THEN /\ migrated' = Append(migrated, r.val)
                /\ pc' = IF Len(migrated) + 1 = Len(pulled_images)
                         THEN "push" ELSE "migrate"
                /\ UNCHANGED <<block_exc, exc>>
           ELSE /\ EndBlock(r.exc)
                /\ UNCHANGED migrated
    /\ UNCHANGED <<copy, apply, fault, registry, local0, registry0,
                   init_image_tags, pulled_images, logs, pushed, cleanup, j,
                   result_package, arg, ret>>

\* image_context.push_all(dst_repository), the last statement of the block.
\* The standalone run is given the response the package's run was given.
PushAll ==
    /\ pc = "push"
    /\ \E response \in (IF copy = "standalone" /\ result_package.pushed
                        THEN {logs} ELSE PushResponses) :
        LET r == push_all(copy, DstRepository, apply, local, registry, calls,
                          fault, response)
        IN
        /\ registry' = r.registry
        /\ calls' = r.calls
        /\ pushed' = r.pushed
        /\ logs' = IF r.pushed THEN response ELSE logs
        /\ EndBlock(r.exc)
    /\ UNCHANGED <<copy, apply, fault, local, local0, registry0,
                   init_image_tags, pulled_images, migrated, cleanup, j,
                   result_package, arg, ret>>

\* docker_context after its yield: `for image in list_local_images(client)`
CleanupList ==
    /\ pc = "cleanup"
    /\ calls' = Append(calls, Call("list", <<>>))
    /\ cleanup' = listed_tags(local)
    /\ j' = 0
    /\ pc' = "remove"
    /\ UNCHANGED <<copy, apply, fault, local, registry, local0, registry0,
                   init_image_tags, pulled_images, migrated, logs, pushed,
                   block_exc, exc, result_package, arg, ret>>

\* one turn of `for image_tag in image.tags`
CleanupStep ==
    /\ pc = "remove"
    /\ j < Len(cleanup)
    /\ j' = j + 1
    /\ LET image_tag == cleanup[j + 1]
           failed == Fails(fault, calls, "remove")
       IN IF keeps(image_tag, init_image_tags)
          THEN UNCHANGED <<local, calls, exc, pc>>
          ELSE /\ calls' = Append(calls, Call("remove", image_tag))
               /\ local' = IF failed THEN local ELSE EngineRemoved(local, image_tag)
               /\ exc' = IF failed THEN APIError("remove") ELSE exc
               /\ pc' = after_remove(failed)
    /\ UNCHANGED <<copy, apply, fault, registry, local0, registry0,
                   init_image_tags, pulled_images, migrated, logs, pushed,
                   cleanup, block_exc, result_package, arg, ret>>

\* the exit step is over: the block's exception, if any, goes on to the caller
CleanupExit ==
    /\ pc = "remove"
    /\ j = Len(cleanup)
    /\ exc' = block_exc
    /\ pc' = "done"
    /\ UNCHANGED <<copy, apply, fault, local, registry, local0, registry0,
                   init_image_tags, pulled_images, migrated, logs, pushed,
                   cleanup, j, calls, block_exc, result_package, arg, ret>>

\* The package's run is over: the standalone module runs main from the same
\* stores.
Restart ==
    /\ pc = "done"
    /\ copy = "package"
    /\ result_package' = [calls |-> calls, exc |-> exc, pushed |-> pushed,
                          local |-> local, registry |-> registry]
    /\ copy' = "standalone"
    /\ pc' = "enter"
    /\ local' = local0
    /\ registry' = registry0
    /\ init_image_tags' = {}
    /\ pulled_images' = <<>>
    /\ migrated' = <<>>
    /\ pushed' = FALSE
    /\ cleanup' = <<>>
    /\ j' = 0
    /\ calls' = <<>>
    /\ block_exc' = NoExc
    /\ exc' = NoExc
    /\ UNCHANGED <<apply, fault, local0, registry0, logs, arg, ret>>

Next ==
    \/ Enter
    \/ PullAll
    \/ MigrateTags
    \/ PushAll
    \/ CleanupList
    \/ CleanupStep
    \/ CleanupExit
    \/ Restart

Spec == Init /\ [][Next]_vars

(***************************************************************************)
(* The functions called on their own, on every input within the bounds.    *)
(***************************************************************************)
\* the variables of main at rest
MainIdle ==
    /\ copy = "package"
    /\ local = EmptyStore
    /\ registry = EmptyStore
    /\ local0 = EmptyStore
    /\ registry0 = EmptyStore
    /\ init_image_tags = {}
    /\ pulled_images = <<>>
    /\ migrated = <<>>
    /\ logs = <<>>
    /\ pushed = FALSE
    /\ cleanup = <<>>
    /\ j = 0
    /\ calls = <<>>
    /\ block_exc = NoExc
    /\ exc = NoExc
    /\ result_package = NoResult
    /\ ret = <<>>

Chars == {"s", ":", "1"}

Strs == UNION {[1..n -> Chars] : n \in 0..MaxLen}

InitParse ==
    /\ pc = "from_string"
    /\ arg \in Strs
    /\ apply = FALSE
    /\ fault = NoFault
    /\ MainIdle

\* ImageTag.from_string(arg)
CallFromString ==
    /\ pc = "from_string"
    /\ ret' = from_string(arg)
    /\ pc' = "from_string_done"
    /\ UNCHANGED <<copy, apply, fault, local, registry, local0, registry0,
                   init_image_tags, pulled_images, migrated, logs, pushed,
                   cleanup, j, calls, block_exc, exc, result_package, arg>>

SpecParse == InitParse /\ [][CallFromString]_vars

Responses == UNION {[1..n -> Lines] : n \in 1..MaxLines}

InitLogs ==
    /\ pc = "push_logs"
    /\ arg \in Responses
    /\ apply = FALSE
    /\ fault = NoFault
    /\ MainIdle

\* process_docker_push_logs(arg)
CallProcessLogs ==
    /\ pc = "push_logs"
    /\ ret' = process_docker_push_logs(arg)
    /\ pc' = "push_logs_done"
    /\ UNCHANGED <<copy, apply, fault, local, registry, local0, registry0,
                   init_image_tags, pulled_images, migrated, logs, pushed,
                   cleanup, j, calls, block_exc, exc, result_package, arg>>

SpecLogs == InitLogs /\ [][CallProcessLogs]_vars

\* The ImageTags an Image may carry: those of the tags the stores may hold.
ImageTags == {from_string(t).val : t \in Tags}

TagLists == UNION {[1..n -> ImageTags] : n \in 0..MaxTags}

InitMigrate ==
    /\ pc = "migrate_tags"
    /\ arg \in [image : {Image("X", tags, "X") : tags \in TagLists},
                src_repository : {SrcRepository, SiblingRepository},
                new_repository : {DstRepository, SrcRepository}]
    /\ apply \in BOOLEAN
    /\ fault \in {f \in Faults : f.op \in {"none", "tag"}}
    /\ MainIdle

\* DockerImageProxy(client, apply).migrate_tags(arg.image, arg.src_repository,
\* arg.new_repository)
CallMigrateTags ==
    /\ pc = "migrate_tags"
    /\ LET r == migrate_tags(arg.image, arg.src_repository, arg.new_repository,
                             apply, local, calls, fault)
       IN /\ ret' = r
          /\ local' = r.local
          /\ calls' = r.calls
    /\ pc' = "migrate_tags_done"
    /\ UNCHANGED <<copy, apply, fault, registry, local0, registry0,
                   init_image_tags, pulled_images, migrated, logs, pushed,
                   cleanup, j, block_exc, exc, result_package, arg>>

SpecMigrate == InitMigrate /\ [][CallMigrateTags]_vars

(***************************************************************************)
(* Properties.                                                             *)
(***************************************************************************)
\* the package's run of main is over
PackageDone == pc = "done" /\ copy = "package"

\* a remove call of the exit step has failed
RemoveFailed == fault.op = "remove" /\ Count(calls, "remove") >= fault.nth

\* the arguments of the calls of `op`, in order
ArgsOf(cs, op) ==
    LET picked == SelectSeq(cs, LAMBDA c : c.op = op)
    IN [k \in 1..Len(picked) |-> picked[k].arg]

\* the tags of the local store that were not there when main was called
NewTags == {t \in Tags : local[t] # NoImage /\ local0[t] = NoImage}

\* C1: with apply, when main returns with no call failed and no error
\* record in the push response, the registry holds dst:t, bound to the image
\* carrying src:t, for every tag src:t of a pulled image.
C1_DestinationHoldsEveryTag ==
    (PackageDone /\ apply /\ exc = NoExc) =>
        \A k \in 1..Len(pulled_images) :
            \A m \in 1..Len(pulled_images[k].tags) :
                LET t == pulled_images[k].tags[m] IN
                t.repository = SrcRepository =>
                    registry[Raw(DstRepository, t.tag)] = pulled_images[k].id

\* C2: however the block ended, if no remove call failed, the exit step
\* re-listed the images and issued one remove call for each listed tag that
\* was absent at entry, and no tag absent at entry is left in the local store.
C2_ExitRemovesNewTags ==
    (PackageDone /\ ~RemoveFailed) =>
        /\ Count(calls, "list") = 2
        /\ calls[Len(calls) - Count(calls, "remove")].op = "list"
        /\ SeqToSet(ArgsOf(calls, "remove")) =
               {t \in SeqToSet(cleanup) : local0[t] = NoImage}
        /\ Count(calls, "remove") = Cardinality(SeqToSet(ArgsOf(calls, "remove")))
        /\ NewTags = {}

\* a run whose block raised and whose exit step removed a tag
C2_Witness ==
    /\ PackageDone
    /\ ~RemoveFailed
    /\ block_exc # NoExc
    /\ Count(calls, "remove") >= 1

\* C3: if no remove call failed, the local store after the run is the store
\* before the run, tag for tag and image for image.
C3_LocalStoreRestored ==
    (PackageDone /\ ~RemoveFailed) => local = local0

\* C4: with apply, when the push response holds an error record, the push
\* error reaches main's caller after the exit step has removed every new
\* tag, and pull and push were each called once.
C4_PushErrorPropagates ==
    (PackageDone /\ apply /\ pushed /\ HasErrorRecord(logs) /\ ~RemoveFailed) =>
        /\ exc.type = "PushError"
        /\ NewTags = {}
        /\ Count(calls, "pull") = 1
        /\ Count(calls, "push") = 1

\* C5: without apply no tag call and no push call is issued, only list,
\* pull and remove, and the registry stays as it was.
C5_DryRunIssuesNoTagNoPush ==
    ~apply =>
        /\ \A k \in 1..Len(calls) : calls[k].op \in {"list", "pull", "remove"}
        /\ registry = registry0

\* a dry run that derived a tag and removed a pulled one
C5_Witness ==
    /\ PackageDone
    /\ ~apply
    /\ \E k \in 1..Len(migrated) :
           Len(migrated[k].tags) > Len(pulled_images[k].tags)
    /\ Count(calls, "remove") >= 1

\* p is a prefix of s
IsPrefix(p, s) == Len(p) <= Len(s) /\ \A k \in 1..Len(p) : s[k] = p[k]

C7_PushErrorIffErrorRecord ==
    pc = "push_logs_done" =>
        LET errs == {k \in 1..Len(arg) : IsErrorRecord(arg[k])}
            first == CHOOSE k \in errs : \A m \in errs : k <= m
        IN IF errs = {} THEN ret.type # "PushError"
           ELSE ret = Exc("PushError", "none", arg[first])

\* C8: from_string fails exactly when s has no colon; otherwise repository
\* is s before its last colon and tag is s after it, and they rebuild s.
C8_FromStringSplitsAtLastColon ==
    pc = "from_string_done" =>
        LET colons == {k \in 1..Len(arg) : arg[k] = ":"}
            last == CHOOSE k \in colons : \A m \in colons : m <= k
        IN IF colons = {} THEN ret.err = "ValueError"
           ELSE /\ ret.err = "none"
                /\ ret.val.repository = SubSeq(arg, 1, last - 1)
                /\ ret.val.tag = SubSeq(arg, last + 1, Len(arg))
                /\ uri(ret.val) = arg

\* a reference whose repository holds a colon
C8_Witness ==
    /\ pc = "from_string_done"
    /\ ret.err = "none"
    /\ \E k \in 1..Len(ret.val.repository) : ret.val.repository[k] = ":"
    /\ ret.val.tag # <<>>

\* C9: a failed remove call ends the exit step: it is the last engine call,
\* the new tags not yet visited stay in the local store, and its failure is
\* what reaches the caller, also when the block had raised.
C9_RemoveFailurePropagates ==
    (copy = "package" /\ RemoveFailed) =>
        /\ pc = "done"
        /\ exc = APIError("remove")
        /\ calls[Len(calls)].op = "remove"
        /\ Count(calls, "remove") = fault.nth
        /\ \A k \in j..Len(cleanup) :
               cleanup[k] \notin init_image_tags => local[cleanup[k]] # NoImage

\* the block raised, a remove failed, and a new tag was never visited
C9_Witness ==
    /\ PackageDone
    /\ RemoveFailed
    /\ block_exc # NoExc
    /\ block_exc # exc
    /\ \E k \in (j + 1)..Len(cleanup) : cleanup[k] \notin init_image_tags

\* C10: the standalone module and the package issue the same engine calls
\* and end the same way.
C10_CopiesAgree ==
    (pc = "done" /\ copy = "standalone") =>
        /\ calls = result_package.calls
        /\ exc = result_package.exc

====
